---- MODULE Spec2Model ----
(***************************************************************************)
(* A model of the Python port of yggdrasil: the value types of             *)
(* yggdrasil/types.py (HLC, SnapshotRef) and the git adapter of            *)
(* yggdrasil/adapters/git.py driven through the fixture hooks of           *)
(* tests/test_git.py.                                                      *)
(***************************************************************************)
EXTENDS Integers, Sequences, FiniteSets, TLC

\* ------------------------------------------------------------------ bounds
\* Largest wall-clock reading and physical component drawn as an input.
MaxWall == 3
\* Largest logical component drawn as an input; tick/receive stop above it.
MaxLogical == 2

\* Most commits a repository holds, the init commit of create_system included.
MaxCommits == 5
\* Most files the mutate hook creates in one repository.
MaxMut == 3
\* Most files of the mutate hook staged and not yet committed.
MaxStaged == 1
\* Snapshots of the parent of the overlays.
MaxParent == 3

VARIABLES
    hlc,        \* types.py HLC: the local clock, [physical, logical]
    hlcLast,    \* the last clock operation: its name, inputs and wall reading
    refA,       \* types.py SnapshotRef: one value
    refB,       \* types.py SnapshotRef: another value
    commits,    \* the repository's commit objects, commits[i] the one with id i
    heads,      \* refs/heads: branch name -> commit id
    HEAD,       \* HEAD: on a branch, or detached at a commit
    index,      \* the staged tree (the hooks stage every change of the work tree)
    mergeHead,  \* MERGE_HEAD: the commit of a merge stopped by conflicts, or 0
    last,       \* the last adapter or hook call: its name, arguments and outcome
    chain,      \* the commit made by the latest commit call when no checkout
                \* or merge was called since, else 0
    caps,       \* the descriptor the latest capabilities() call returned
    handles,    \* the GitSystem objects in use: handle -> its fields
    ret,        \* what the last call of an optional operation gave back
    harness,    \* the compliance harness's last run of one check
    ov          \* an Overlayable parent system, the overlays made of it and
                \* the last overlay call

vars == <<hlc, hlcLast, refA, refB, commits, heads, HEAD, index, mergeHead, last, chain, caps, handles, ret, harness, ov>>
hlcVars == <<hlc, hlcLast>>
refVars == <<refA, refB>>
gitVars == <<commits, heads, HEAD, index, mergeHead, last, chain, caps, handles, ret, harness, ov>>
repoVars == <<commits, heads, HEAD, index, mergeHead>>

\* Optional[T]: None is the empty sequence, a value v is <<v>>.
None == <<>>
Some(v) == <<v>>

\* ============================================================ types.py HLC
\* HLC(physical=p, logical=l)
HLC(p, l) == [physical |-> p, logical |-> l]

\* dataclass(order=True): fields compared as the tuple (physical, logical).
HLCLess(a, b) ==
    \/ a.physical < b.physical
    \/ a.physical = b.physical /\ a.logical < b.logical

HLCLeq(a, b) == a = b \/ HLCLess(a, b)

Max2(a, b) == IF a >= b THEN a ELSE b
Max3(a, b, c) == Max2(a, Max2(b, c))

\* HLC.tick with the wall clock read as now_ms, the comparison reversed.
tickNoGuard(self, now_ms) ==
    IF now_ms # self.physical
    THEN HLC(now_ms, 0)
    ELSE HLC(self.physical, self.logical + 1)

\* HLC.tick, the wall clock read as now_ms.
tick(self, now_ms) ==
    IF now_ms > self.physical
    THEN HLC(now_ms, 0)
    ELSE HLC(self.physical, self.logical + 1)

\* HLC.receive that forgets the remote clock on a physical tie.
receiveNoMax(self, remote, now_ms) ==
    LET max_physical == Max3(now_ms, self.physical, remote.physical)
    IN  IF max_physical = self.physical
        THEN HLC(max_physical, self.logical + 1)
        ELSE IF max_physical = remote.physical
        THEN HLC(max_physical, remote.logical + 1)
        ELSE HLC(max_physical, 0)

\* HLC.receive, the wall clock read as now_ms.
receive(self, remote, now_ms) ==
    LET max_physical == Max3(now_ms, self.physical, remote.physical)
    IN  IF max_physical = self.physical /\ self.physical = remote.physical
        THEN HLC(max_physical, Max2(self.logical, remote.logical) + 1)
        ELSE IF max_physical = self.physical
        THEN HLC(max_physical, self.logical + 1)
        ELSE IF max_physical = remote.physical
        THEN HLC(max_physical, remote.logical + 1)
        ELSE HLC(max_physical, 0)

WallReadings == 0..MaxWall
HLCInputs == {HLC(p, l) : p \in 0..MaxWall, l \in 0..MaxLogical}

NoHlcOp == [op |-> "none", self |-> HLC(0, 0), remote |-> HLC(0, 0), wall |-> 0]



\* A local event: the clock is replaced by its tick().
HlcTick ==
    /\ \E t \in WallReadings :
        /\ tick(hlc, t).logical <= MaxLogical + 1
        /\ hlc' = tick(hlc, t)
        /\ hlcLast' = [op |-> "tick", self |-> hlc, remote |-> HLC(0, 0), wall |-> t]
    /\ UNCHANGED <<refVars, gitVars>>

\* A message arrival: the clock is replaced by its receive(remote).
HlcReceive ==
    /\ \E t \in WallReadings, remote \in HLCInputs :
        /\ receive(hlc, remote, t).logical <= MaxLogical + 1
        /\ hlc' = receive(hlc, remote, t)
        /\ hlcLast' = [op |-> "receive", self |-> hlc, remote |-> remote, wall |-> t]
    /\ UNCHANGED <<refVars, gitVars>>

\* ==================================================== types.py SnapshotRef
SnapshotRef(sys, snap, parents, h, ch) ==
    [system_id |-> sys, snapshot_id |-> snap, parent_ids |-> parents,
     hlc |-> h, content_hash |-> ch]

\* An __eq__ that compares the identifying pair only.
SnapshotRefEqIdentity(a, b) ==
    <<a.system_id, a.snapshot_id>> = <<b.system_id, b.snapshot_id>>

\* dataclass(frozen=True) generates __eq__ over the tuple of all five fields.
SnapshotRefEq(a, b) ==
    <<a.system_id, a.snapshot_id, a.parent_ids, a.hlc, a.content_hash>>
        = <<b.system_id, b.snapshot_id, b.parent_ids, b.hlc, b.content_hash>>

SystemIds == {"git:/r1", "git:/r2"}
SnapIds == {"c1", "c2"}
RefInputs ==
    {SnapshotRef(s, i, p, h, ch) :
        s \in SystemIds, i \in SnapIds, p \in SUBSET {"c1"},
        h \in {None, Some(HLC(0, 0))}, ch \in {None, Some("h1")}}


\* A backing system records a snapshot: a SnapshotRef is constructed.
MakeRefA ==
    /\ \E r \in RefInputs : refA' = r
    /\ UNCHANGED <<refB, hlcVars, gitVars>>

MakeRefB ==
    /\ \E r \in RefInputs : refB' = r
    /\ UNCHANGED <<refA, hlcVars, gitVars>>

\* ====================================================== the git repository
\* Branch names the calls are made with.
BranchNames == {"main", "feature"}
\* The file _init_repo puts into data/ so that the directory is tracked.
GitKeep == ".gitkeep"
\* Keys the write_entry / delete_entry hooks are called with (files of data/).
Keys == {"shared", "main-only", "feature-only", GitKeep}
\* A file that is not there (read_entry gives None).
Absent == "absent"
\* Values written by write_entry.
Values == {"v1", "v2"}
\* A file left with <<<<<<< ======= >>>>>>> markers by a conflicting merge.
Marked == "<<<<<<<"

\* A tree: the entries of data/ and the files made by the mutate hook. The
\* tree of the "init" commit holds the empty data/.gitkeep alone.
EmptyTree ==
    [data |-> [k \in Keys |-> IF k = GitKeep THEN "" ELSE Absent], muts |-> {}]

\* A revision argument: a branch name, a snapshot id, or neither (None / "").
NoRef == [name |-> "", id |-> 0]
NameRef(n) == [name |-> n, id |-> 0]
IdRef(i) == [name |-> "", id |-> i]
\* Snapshot ids the calls are made with: the last one is never a commit.
SnapIdInputs == 1..(MaxCommits + 1)
BranchRefs == {NameRef(n) : n \in BranchNames}
RefInputs0 == BranchRefs \cup {IdRef(i) : i \in SnapIdInputs}

CommitIds == 1..Len(commits)

\* git rev-parse <ref>: the commit a branch name or a commit id names, 0 when
\* git knows no such revision.
RevParse(ref) ==
    IF ref.name # ""
    THEN (IF ref.name \in DOMAIN heads THEN heads[ref.name] ELSE 0)
    ELSE (IF ref.id \in CommitIds THEN ref.id ELSE 0)

Detached == HEAD.branch = ""

\* git rev-parse HEAD
HeadCommit == IF Detached THEN HEAD.commit ELSE heads[HEAD.branch]

HeadTree == commits[HeadCommit].tree

SeqToSet(s) == {s[i] : i \in DOMAIN s}

\* The commits reachable from c by parent links, c included.
RECURSIVE Reach(_)
Reach(c) ==
    {c} \cup UNION {Reach(p) : p \in SeqToSet(commits[c].parents)}

\* git merge-base --is-ancestor a b (git counts a commit as its own ancestor).
IsAncestorOrSelf(a, b) == a \in Reach(b)

\* The files of the mutate hook found anywhere in the repository.
AllMuts == index.muts \cup UNION {commits[c].tree.muts : c \in CommitIds}

\* uuid4 of the mutate hook: a name no file of the repository has.
FreshMut == IF AllMuts = {} THEN 1 ELSE 1 + CHOOSE m \in AllMuts : \A o \in AllMuts : o <= m

\* git's two-way merge of the index on checkout and fast-forward: a staged
\* change is carried over when the path is the same in both commits or the
\* staged content is the target's; otherwise the switch is refused.
TwoWayOk(idx, from, to) ==
    \A k \in Keys :
        \/ idx.data[k] = from.data[k]
        \/ from.data[k] = to.data[k]
        \/ idx.data[k] = to.data[k]

\* A switch that moves HEAD and leaves the work tree as it is.
TwoWayKeep(idx, from, to) == idx

TwoWay(idx, from, to) ==
    [data |-> [k \in Keys |->
                  IF idx.data[k] = from.data[k] THEN to.data[k] ELSE idx.data[k]],
     muts |-> {m \in idx.muts \cup from.muts \cup to.muts :
                  IF (m \in idx.muts) = (m \in from.muts)
                  THEN m \in to.muts ELSE m \in idx.muts}]

\* The record of a call: its name and arguments; ok is FALSE when it raised.
Outcome(op, name, ref, ok) ==
    [op |-> op, name |-> name, ref |-> ref, ok |-> ok]

\* ------------------------------------------------------ Identity (git.py)
\* The directory _init_repo made the repository in.
RepoPath == "/tmp/ygg-test-git"

\* The handles a client holds onto the one repository.
HandleIds == {1, 2}

\* A constructor that clones the repository and keeps the clone's path.
GitSystemOnClone(repo_path) == [repo_path |-> "/tmp/ygg-test-git.clone"]

\* GitSystem.__init__: the object keeps the path (and a name); every method
\* runs git -C self.repo_path, and nothing of the repository is cached.
GitSystem(repo_path) == [repo_path |-> repo_path]

\* What git -C path reads: this repository at RepoPath; any other directory
\* made by _init_repo is as create_system left it.
RepoAt(path) ==
    IF path = RepoPath
    THEN [commits |-> commits, heads |-> heads, HEAD |-> HEAD]
    ELSE [commits |-> <<[parents |-> <<>>, tree |-> EmptyTree, msg |-> "init"]>>,
          heads |-> [b \in {"main"} |-> 1],
          HEAD |-> [branch |-> "main", commit |-> 0]]

\* Capabilities() with every field at its default.
capabilitiesDefault ==
    [snapshotable |-> FALSE, branchable |-> FALSE, graphable |-> FALSE,
     mergeable |-> FALSE, overlayable |-> FALSE, watchable |-> FALSE]

\* GitSystem.capabilities
capabilities ==
    [snapshotable |-> TRUE, branchable |-> TRUE, graphable |-> TRUE,
     mergeable |-> TRUE, overlayable |-> FALSE, watchable |-> FALSE]

\* The harness asks a system for its capabilities before it uses a layer.
QueryCapabilities ==
    /\ caps' = capabilities
    /\ last' = Outcome("capabilities", "", NoRef, TRUE)
    /\ UNCHANGED <<repoVars, chain, hlcVars, refVars, handles, ov, ret, harness>>

\* ---------------------------------------------------- Snapshotable (git.py)
\* GitSystem.snapshot_id
snapshot_id == HeadCommit

\* GitSystem.parent_ids that lets git's error through (-1 stands for raising).
parent_idsRaising(snap_id) ==
    LET c == IF snap_id = NoRef THEN HeadCommit ELSE RevParse(snap_id)
    IN  IF c = 0 THEN {-1} ELSE SeqToSet(commits[c].parents)

\* GitSystem.parent_ids: rev-parse <ref>^@, any git error turned into set().
parent_ids(snap_id) ==
    LET c == IF snap_id = NoRef THEN HeadCommit ELSE RevParse(snap_id)
    IN  IF c = 0 THEN {} ELSE SeqToSet(commits[c].parents)

\* GitSystem.as_of: the view is built from the argument, git is not asked.
\* ok is FALSE when the call raises.
as_of(snap_id) == [ok |-> TRUE, commit |-> snap_id]

\* GitSystem.snapshot_meta: git log -1 raises for an unknown revision; fewer
\* than five lines of output (an empty subject) give the empty dict.
snapshot_meta(snap_id) ==
    LET c == RevParse(snap_id)
    IN  IF c = 0 THEN [ok |-> FALSE, meta |-> <<>>]
        ELSE IF commits[c].msg = "" THEN [ok |-> TRUE, meta |-> <<>>]
        ELSE [ok |-> TRUE,
              meta |-> <<[snapshot_id |-> c,
                          parent_ids |-> SeqToSet(commits[c].parents),
                          message |-> commits[c].msg]>>]

\* ------------------------------------------------------ Branchable (git.py)
DetachedLabel == "(HEAD detached)"

\* GitSystem.branches: git branch --list prints a "(HEAD detached at ...)"
\* line of its own while HEAD is detached.
branches == DOMAIN heads \cup (IF Detached THEN {DetachedLabel} ELSE {})

\* GitSystem.current_branch: rev-parse --abbrev-ref HEAD
current_branch == IF Detached THEN "HEAD" ELSE HEAD.branch

\* A commit that moves every branch to the new commit.
HeadsAllMovedTo(c) == [b \in DOMAIN heads |-> c]

\* Moving what HEAD names to commit c: the current branch, or HEAD itself.
HeadsMovedTo(c) == IF Detached THEN heads ELSE [heads EXCEPT ![HEAD.branch] = c]
HeadMovedTo(c) == IF Detached THEN [branch |-> "", commit |-> c] ELSE HEAD

\* branches(), current_branch() and snapshot_id() called on handle h.
branchesVia(h) ==
    LET r == RepoAt(handles[h].repo_path)
    IN  DOMAIN r.heads \cup (IF r.HEAD.branch = "" THEN {DetachedLabel} ELSE {})

current_branchVia(h) ==
    LET r == RepoAt(handles[h].repo_path)
    IN  IF r.HEAD.branch = "" THEN "HEAD" ELSE r.HEAD.branch

snapshot_idVia(h) ==
    LET r == RepoAt(handles[h].repo_path)
    IN  IF r.HEAD.branch = "" THEN r.HEAD.commit ELSE r.heads[r.HEAD.branch]

\* ------------------------------------------------------- Graphable (git.py)
\* The committer times git can have recorded, in seconds: commit ids count the
\* commits in the order they were written, so the times never decrease with
\* the id, and commits written within one second share theirs.
Timings ==
    {[i \in CommitIds |-> Cardinality({j \in later : j <= i})] :
        later \in SUBSET (CommitIds \ {1})}

\* commit_list_insert_by_date: c goes before the first queued commit that is
\* strictly older, so behind every queued commit of its own second.
InsertByDate(queue, c, T) ==
    LET older == {i \in DOMAIN queue : T[queue[i]] < T[c]}
        at == IF older = {} THEN Len(queue) + 1
              ELSE CHOOSE i \in older : \A j \in older : i <= j
    IN  SubSeq(queue, 1, at - 1) \o <<c>> \o SubSeq(queue, at, Len(queue))

RECURSIVE InsertAll(_, _, _, _)
InsertAll(queue, ps, seen, T) ==
    IF ps = <<>> THEN queue
    ELSE IF Head(ps) \in seen THEN InsertAll(queue, Tail(ps), seen, T)
    ELSE InsertAll(InsertByDate(queue, Head(ps), T), Tail(ps), seen \cup {Head(ps)}, T)

\* git log's walk: the newest queued commit is shown, and its parents not yet
\* seen are queued by date.
RECURSIVE LogWalk(_, _, _)
LogWalk(queue, seen, T) ==
    IF queue = <<>> THEN <<>>
    ELSE LET c == Head(queue)
             ps == commits[c].parents
         IN  <<c>> \o LogWalk(InsertAll(Tail(queue), ps, seen, T),
                               seen \cup SeqToSet(ps), T)

\* git log --format=%H from HEAD under the commit times T.
Log(T) == LogWalk(<<HeadCommit>>, {HeadCommit}, T)

Min2(a, b) == IF a <= b THEN a ELSE b

\* GitSystem.history: git log --format=%H [-limit] [since..HEAD]; `if limit:`
\* and `if since:` leave the argument out for None and also for 0 and "".
history(T, limit, since) ==
    LET shown == IF since = NoRef THEN Log(T)
                 ELSE SelectSeq(Log(T), LAMBDA c : c \notin Reach(RevParse(since)))
    IN  IF limit = None \/ limit = Some(0) THEN shown
        ELSE SubSeq(shown, 1, Min2(limit[1], Len(shown)))

\* GitSystem.ancestors: git rev-list snap_id lists snap_id itself first.
ancestors(snap_id) == Reach(RevParse(snap_id))

\* An is_ancestor that takes a snapshot not to be its own ancestor.
is_ancestorStrict(a, b) ==
    /\ RevParse(a) # 0 /\ RevParse(b) # 0
    /\ RevParse(a) # RevParse(b)
    /\ IsAncestorOrSelf(RevParse(a), RevParse(b))

\* GitSystem.is_ancestor: git merge-base --is-ancestor a b; a failing git
\* (b does not descend from a, or an id is unknown) gives False.
is_ancestor(a, b) ==
    /\ RevParse(a) # 0 /\ RevParse(b) # 0
    /\ IsAncestorOrSelf(RevParse(a), RevParse(b))

\* ------------------------------------------------- fixture hooks (test_git.py)
\* _mutate: a file with a fresh name is written and staged.
Mutate ==
    /\ FreshMut <= MaxMut
    /\ Cardinality(index.muts \ HeadTree.muts) < MaxStaged
    /\ index' = [index EXCEPT !.muts = @ \cup {FreshMut}]
    /\ last' = Outcome("mutate", "", NoRef, TRUE)
    /\ UNCHANGED <<commits, heads, HEAD, mergeHead, chain, hlcVars, refVars, handles, ov, ret, harness, caps>>

\* A commit hook that records no parent.
NewCommitOrphan(msg) ==
    [parents |-> <<>>, tree |-> index, msg |-> msg]

\* The commit object git commit writes: the parents are HEAD and, while a
\* merge is being concluded, MERGE_HEAD.
NewCommit(msg) ==
    [parents |-> IF mergeHead # 0 THEN <<HeadCommit, mergeHead>> ELSE <<HeadCommit>>,
     tree |-> index, msg |-> msg]

\* The ids git can give a commit object: a commit id is the hash of parents,
\* tree, message, author and time in seconds, so an object equal to one
\* written in the same second gets that commit's id, and any other a new id.
IdsFor(new) ==
    {i \in CommitIds : commits[i] = new}
        \cup (IF Len(commits) < MaxCommits THEN {Len(commits) + 1} ELSE {})

\* The object store after writing `new` under `id`.
Stored(new, id) == IF id \in CommitIds THEN commits ELSE Append(commits, new)

\* _commit: git add -A, git commit --allow-empty-message -m msg. With nothing
\* staged git says so on stdout, the hook finds no "nothing to commit" in the
\* error text (stderr) and raises.
Commit(msgs) ==
    \E msg \in msgs :
        IF mergeHead = 0 /\ index = HeadTree
        THEN /\ last' = Outcome("commit", msg, IdRef(chain), FALSE)
             /\ UNCHANGED <<repoVars, chain, hlcVars, refVars, handles, ov, ret, harness, caps>>
        ELSE \E id \in IdsFor(NewCommit(msg)) :
             /\ commits' = Stored(NewCommit(msg), id)
             /\ heads' = HeadsMovedTo(id)
             /\ HEAD' = HeadMovedTo(id)
             /\ mergeHead' = 0
             /\ last' = Outcome("commit", msg, IdRef(chain), TRUE)
             /\ chain' = id
             /\ UNCHANGED <<index, hlcVars, refVars, handles, ov, ret, harness, caps>>

\* _write_entry: data/<key> is written and staged.
WriteEntry(keys, values) ==
    \E k \in keys, v \in values :
        /\ index' = [index EXCEPT !.data[k] = v]
        /\ last' = Outcome("write_entry", k, NoRef, TRUE)
        /\ UNCHANGED <<commits, heads, HEAD, mergeHead, chain, hlcVars, refVars, handles, ov, ret, harness, caps>>

\* _delete_entry: git rm -f data/<key> when the file is there.
DeleteEntry(keys) ==
    \E k \in keys :
        /\ index' = [index EXCEPT !.data[k] = Absent]
        /\ last' = Outcome("delete_entry", k, NoRef, TRUE)
        /\ UNCHANGED <<commits, heads, HEAD, mergeHead, chain, hlcVars, refVars, handles, ov, ret, harness, caps>>

\* _read_entry: the content of data/<key> in the work tree, Absent for None.
read_entry(k) == index.data[k]

\* A count of every file of data/.
count_entriesAll == Cardinality({k \in Keys : index.data[k] # Absent})

\* _count_entries: the files of data/ other than .gitkeep.
count_entries == Cardinality({k \in Keys \ {GitKeep} : index.data[k] # Absent})

\* --------------------------------------------------- Branchable, the calls
\* A branch() that also switches to the new branch (git checkout -b).
BranchEffectSwitching(name, c) ==
    /\ heads' = (name :> c) @@ heads
    /\ HEAD' = [branch |-> name, commit |-> 0]

\* git branch <name> <commit>: a new ref, HEAD left alone.
BranchEffect(name, c) ==
    /\ heads' = (name :> c) @@ heads
    /\ HEAD' = HEAD

\* GitSystem.branch: git branch name [from_ref]; from_ref None or "" means
\* HEAD. git refuses a name that exists and a from_ref it cannot resolve.
Branch(froms) ==
    \E name \in BranchNames, from \in froms :
        LET c == IF from = NoRef THEN HeadCommit ELSE RevParse(from)
        IN  IF name \in DOMAIN heads \/ c = 0
            THEN /\ last' = Outcome("branch", name, from, FALSE)
                 /\ UNCHANGED <<repoVars, chain, hlcVars, refVars, handles, ov, ret, harness, caps>>
            ELSE /\ BranchEffect(name, c)
                 /\ last' = Outcome("branch", name, from, TRUE)
                 /\ UNCHANGED <<commits, index, mergeHead, chain, hlcVars, refVars, handles, ov, ret, harness, caps>>

\* A git branch -d that does not look at where HEAD is.
DeleteRefusedIgnoringHead(name) ==
    \/ name \notin DOMAIN heads
    \/ ~IsAncestorOrSelf(heads[name], HeadCommit)

\* When git branch -d name fails: the branch is not there, HEAD is on it, or
\* it is not merged into HEAD (-d, not -D).
DeleteRefused(name) ==
    \/ name \notin DOMAIN heads
    \/ name = HEAD.branch
    \/ ~IsAncestorOrSelf(heads[name], HeadCommit)

\* GitSystem.delete_branch: git branch -d name.
DeleteBranch ==
    \E name \in BranchNames :
        IF DeleteRefused(name)
        THEN /\ last' = Outcome("delete_branch", name, NoRef, FALSE)
             /\ UNCHANGED <<repoVars, chain, hlcVars, refVars, handles, ov, ret, harness, caps>>
        ELSE /\ heads' = [b \in DOMAIN heads \ {name} |-> heads[b]]
             /\ last' = Outcome("delete_branch", name, NoRef, TRUE)
             /\ UNCHANGED <<commits, HEAD, index, mergeHead, chain, hlcVars, refVars, handles, ov, ret, harness, caps>>

\* A checkout that resolves the name and checks out the commit (detached).
CheckoutHeadDetaching(ref, c) == [branch |-> "", commit |-> c]

\* HEAD after git checkout: on the branch for a branch name, detached at the
\* commit for a commit id.
CheckoutHead(ref, c) ==
    IF ref.name # ""
    THEN [branch |-> ref.name, commit |-> 0]
    ELSE [branch |-> "", commit |-> c]

\* GitSystem.checkout: git checkout name. A branch name switches to the
\* branch, a commit id detaches HEAD; git refuses while a merge is unresolved,
\* for an unknown name, and when a staged change would be overwritten.
Checkout(refs) ==
    \E ref \in refs :
        LET c == RevParse(ref)
        IN  /\ chain' = 0
            /\ IF \/ mergeHead # 0
                  \/ c = 0
                  \/ ~TwoWayOk(index, HeadTree, commits[c].tree)
               THEN /\ last' = Outcome("checkout", ref.name, ref, FALSE)
                    /\ UNCHANGED <<repoVars, hlcVars, refVars, handles, ov, ret, harness, caps>>
               ELSE /\ HEAD' = CheckoutHead(ref, c)
                    /\ index' = TwoWay(index, HeadTree, commits[c].tree)
                    /\ last' = Outcome("checkout", ref.name, ref, TRUE)
                    /\ UNCHANGED <<commits, heads, mergeHead, hlcVars, refVars, handles, ov, ret, harness, caps>>

\* ------------------------------------------------------ Mergeable (git.py)
\* A merge base that is the oldest common ancestor.
MergeBaseOldest(a, b) ==
    LET common == Reach(a) \cap Reach(b)
    IN  IF common = {} THEN 0
        ELSE CHOOSE x \in common : \A y \in common : x <= y

\* git merge-base a b: a best common ancestor (the newest of them).
MergeBase(a, b) ==
    LET common == Reach(a) \cap Reach(b)
    IN  IF common = {} THEN 0
        ELSE CHOOSE x \in common : \A y \in common : y <= x

\* git's three-way merge of one path.
Conflicting(b, o, t) == o # t /\ o # b /\ t # b

MergedValue(b, o, t) ==
    IF o = t THEN o
    ELSE IF o = b THEN t
    ELSE IF t = b THEN o
    ELSE IF o = Absent THEN t
    ELSE IF t = Absent THEN o
    ELSE Marked

\* The tree a three-way merge leaves: a path both sides changed differently
\* is left with conflict markers, or with the surviving side of a
\* modify/delete conflict.
ThreeWay(base, ours, theirs) ==
    [data |-> [k \in Keys |-> MergedValue(base.data[k], ours.data[k], theirs.data[k])],
     muts |-> {m \in base.muts \cup ours.muts \cup theirs.muts :
                  IF (m \in ours.muts) = (m \in base.muts)
                  THEN m \in theirs.muts ELSE m \in ours.muts}]

HasConflict(base, ours, theirs) ==
    \E k \in Keys : Conflicting(base.data[k], ours.data[k], theirs.data[k])

\* A merge commit that records the merged-in commit only.
MergeCommitOneParent(c, message) ==
    [parents |-> <<c>>,
     tree |-> ThreeWay(commits[MergeBase(HeadCommit, c)].tree, HeadTree, commits[c].tree),
     msg |-> IF message = "" THEN "Merge" ELSE message]

\* The commit a true merge writes: parents HEAD and the merged-in commit.
MergeCommit(c, message) ==
    [parents |-> <<HeadCommit, c>>,
     tree |-> ThreeWay(commits[MergeBase(HeadCommit, c)].tree, HeadTree, commits[c].tree),
     msg |-> IF message = "" THEN "Merge" ELSE message]

\* GitSystem.common_ancestor: git merge-base a b, None when git fails (an
\* unknown revision, or no common ancestor).
common_ancestor(a, b) ==
    IF RevParse(a) = 0 \/ RevParse(b) = 0 THEN None
    ELSE IF MergeBase(RevParse(a), RevParse(b)) = 0 THEN None
    ELSE Some(MergeBase(RevParse(a), RevParse(b)))

\* GitSystem.merge: git merge [-m message] source, no strategy option.
\*   - an unknown source, or a merge still unresolved: git fails;
\*   - source already in HEAD's history: "Already up to date", nothing moves;
\*   - HEAD in source's history: fast-forward, no commit is written;
\*   - otherwise a true merge, refused with staged changes and for histories
\*     with no common ancestor; on conflicts git fails and leaves MERGE_HEAD
\*     and the conflicted tree behind.
Merge(sources, msgs) ==
    \E source \in sources, message \in msgs :
        LET c == RevParse(source)
        IN  /\ chain' = 0
            /\ IF c = 0 \/ mergeHead # 0
               THEN /\ last' = Outcome("merge", source.name, source, FALSE)
                    /\ UNCHANGED <<repoVars, hlcVars, refVars, handles, ov, ret, harness, caps>>
               ELSE IF IsAncestorOrSelf(c, HeadCommit)
               THEN /\ last' = Outcome("merge", source.name, source, TRUE)
                    /\ UNCHANGED <<repoVars, hlcVars, refVars, handles, ov, ret, harness, caps>>
               ELSE IF IsAncestorOrSelf(HeadCommit, c)
               THEN IF TwoWayOk(index, HeadTree, commits[c].tree)
                    THEN /\ heads' = HeadsMovedTo(c)
                         /\ HEAD' = HeadMovedTo(c)
                         /\ index' = TwoWay(index, HeadTree, commits[c].tree)
                         /\ last' = Outcome("merge", source.name, source, TRUE)
                         /\ UNCHANGED <<commits, mergeHead, hlcVars, refVars, handles, ov, ret, harness, caps>>
                    ELSE /\ last' = Outcome("merge", source.name, source, FALSE)
                         /\ UNCHANGED <<repoVars, hlcVars, refVars, handles, ov, ret, harness, caps>>
               ELSE IF index # HeadTree \/ MergeBase(HeadCommit, c) = 0
               THEN /\ last' = Outcome("merge", source.name, source, FALSE)
                    /\ UNCHANGED <<repoVars, hlcVars, refVars, handles, ov, ret, harness, caps>>
               ELSE IF HasConflict(commits[MergeBase(HeadCommit, c)].tree,
                                   HeadTree, commits[c].tree)
               THEN /\ mergeHead' = c
                    /\ index' = ThreeWay(commits[MergeBase(HeadCommit, c)].tree,
                                         HeadTree, commits[c].tree)
                    /\ last' = Outcome("merge", source.name, source, FALSE)
                    /\ UNCHANGED <<commits, heads, HEAD, hlcVars, refVars, handles, ov, ret, harness, caps>>
               ELSE \E id \in IdsFor(MergeCommit(c, message)) :
                    /\ commits' = Stored(MergeCommit(c, message), id)
                    /\ heads' = HeadsMovedTo(id)
                    /\ HEAD' = HeadMovedTo(id)
                    /\ index' = MergeCommit(c, message).tree
                    /\ last' = Outcome("merge", source.name, source, TRUE)
                    /\ UNCHANGED <<mergeHead, hlcVars, refVars, handles, ov, ret, harness, caps>>


\* Does git merge-tree base a b exit with an error? With three trees git runs
\* its trivial merge, prints "changed in both" for a conflicting path and
\* exits 0.
MergeTreeFails(base, a, b) == FALSE

\* GitSystem.conflicts: [] when git merge-base fails, one Conflict when git
\* merge-tree exits with an error, [] otherwise.
conflicts(a, b) ==
    IF common_ancestor(a, b) = None THEN <<>>
    ELSE IF MergeTreeFails(common_ancestor(a, b)[1], RevParse(a), RevParse(b))
    THEN <<[path |-> <<"merge-tree">>, base |-> common_ancestor(a, b)[1],
            ours |-> RevParse(a), theirs |-> RevParse(b)]>>
    ELSE <<>>

\* GitSystem.diff: git diff a b, the paths whose content differs; ok is FALSE
\* when git fails (an unknown revision) and the call raises.
diff(a, b) ==
    IF RevParse(a) = 0 \/ RevParse(b) = 0 THEN [ok |-> FALSE, delta |-> {}]
    ELSE [ok |-> TRUE,
          delta |-> {k \in Keys : commits[RevParse(a)].tree.data[k]
                                      # commits[RevParse(b)].tree.data[k]}]

\* Revisions the probes are called with: the branches and an unknown id.
ProbeRefs == BranchRefs \cup {IdRef(MaxCommits + 1)}

\* A probe that looks at a revision by checking it out.
ProbeWritesByCheckout ==
    /\ HEAD' = [branch |-> "", commit |-> HeadCommit]
    /\ UNCHANGED <<commits, heads, index, mergeHead>>

\* What git merge-base, git merge-tree and git diff write: nothing.
ProbeWrites == UNCHANGED <<commits, heads, HEAD, index, mergeHead>>

\* A call of conflicts(a, b) through the adapter; it never raises.
Conflicts ==
    \E a \in ProbeRefs, b \in ProbeRefs :
        /\ Len(conflicts(a, b)) >= 0
        /\ ProbeWrites
        /\ last' = Outcome("conflicts", "", NoRef, TRUE)
        /\ UNCHANGED <<chain, hlcVars, refVars, handles, ov, ret, harness, caps>>

\* A call of diff(a, b) through the adapter.
Diff ==
    \E a \in ProbeRefs, b \in ProbeRefs :
        /\ ProbeWrites
        /\ last' = Outcome("diff", "", NoRef, diff(a, b).ok)
        /\ UNCHANGED <<chain, hlcVars, refVars, handles, ov, ret, harness, caps>>

\* ------------------- optional operations (protocols.py, adapters/git.py)
\* What a call gives back: its value, or the exception it raised.
Returned(r) ==
    [ok |-> r.ok, error |-> IF r.ok THEN "" ELSE "RuntimeError", value |-> r.meta]
Raised(error) == [ok |-> FALSE, error |-> error, value |-> <<>>]

\* class GitSystem(SystemIdentity, Snapshotable, Branchable, Graphable, Mergeable)
GitSystemBases ==
    {"SystemIdentity", "Snapshotable", "Branchable", "Graphable", "Mergeable"}

\* The objects the optional operations are called on: a GitSystem, and an
\* object of a class that derives from Graphable alone.
Instances == {[bases |-> GitSystemBases], [bases |-> {"Graphable"}]}

\* The methods the Overlayable and the Watchable protocol declare.
OverlayOps ==
    {"overlay", "advance", "peek_parent", "base_ref", "overlay_writes",
     "merge_down", "discard"}
WatchOps == {"watch", "unwatch"}

\* The attributes an object has by its protocol classes.
Methods(base) ==
    CASE base = "SystemIdentity" -> {"system_id", "system_type", "capabilities"}
      [] base = "Snapshotable" -> {"snapshot_id", "parent_ids", "as_of", "snapshot_meta"}
      [] base = "Branchable" ->
           {"branches", "current_branch", "branch", "delete_branch", "checkout"}
      [] base = "Graphable" ->
           {"history", "ancestors", "is_ancestor", "common_ancestor",
            "commit_graph", "commit_info"}
      [] base = "Mergeable" -> {"merge", "conflicts", "diff"}
      [] base = "Overlayable" -> OverlayOps
      [] base = "Watchable" -> WatchOps
MethodsOf(self) == UNION {Methods(base) : base \in self.bases}

\* Graphable.commit_graph: the default raises.
commit_graph == Raised("NotImplementedError")

\* A commit_info that calls snapshot_meta whatever the object is.
commit_infoUnchecked(self, snap_id) == Returned(snapshot_meta(snap_id))

\* Graphable.commit_info: snapshot_meta of the same object when the object is
\* a Snapshotable, else it raises.
commit_info(self, snap_id) ==
    IF "Snapshotable" \in self.bases THEN Returned(snapshot_meta(snap_id))
    ELSE Raised("NotImplementedError")

\* The operations no capability bit or method of GitSystem stands for.
UnsetOps == OverlayOps \cup WatchOps \cup {"commit_graph"}

\* self.<op>(...) for an operation of UnsetOps: Python looks the name up on
\* the object first, and raises AttributeError when no class of it has it.
CallUnset(self, op) ==
    IF op \notin MethodsOf(self) THEN Raised("AttributeError")
    ELSE commit_graph

\* No optional operation was called yet.
NoCall == [op |-> "", self |-> [bases |-> {}], arg |-> NoRef, out |-> Raised("")]

\* A call of commit_info(snap_id) on one of the objects.
CommitInfo ==
    \E self \in Instances, snap_id \in RefInputs0 :
        /\ ret' = [op |-> "commit_info", self |-> self, arg |-> snap_id,
                   out |-> commit_info(self, snap_id)]
        /\ last' = Outcome("commit_info", "", snap_id, commit_info(self, snap_id).ok)
        /\ UNCHANGED <<repoVars, chain, hlcVars, refVars, handles, ov, harness, caps>>

\* A call of an Overlay or Watch operation, or of commit_graph, on one of the
\* objects.
CallOptional ==
    \E self \in Instances, op \in UnsetOps :
        /\ ret' = [op |-> op, self |-> self, arg |-> NoRef,
                   out |-> CallUnset(self, op)]
        /\ last' = Outcome(op, "", NoRef, CallUnset(self, op).ok)
        /\ UNCHANGED <<repoVars, chain, hlcVars, refVars, handles, ov, harness, caps>>

\* ------------------------------------------- the harness (compliance.py)
\* The capability fields the checks ask for.
CapNames == {"snapshotable", "branchable", "graphable", "mergeable"}

\* The protocol layer an adapter operation belongs to, by its capability.
OpLayer(op) ==
    CASE op \in Methods("Snapshotable") -> "snapshotable"
      [] op \in Methods("Branchable") -> "branchable"
      [] op \in Methods("Graphable") -> "graphable"
      [] op \in Methods("Mergeable") -> "mergeable"
      [] OTHER -> "identity"

\* One check: its group in ALL_TESTS, the capabilities it asks
\* _has_capability for (in order), the operations it calls on sys, whether
\* its body calls a hook, and whether it returns when the fixture has no
\* delete_entry hook.
Test(name, group, needs, ops, hooks, optional) ==
    [name |-> name, group |-> group, needs |-> needs, ops |-> ops,
     hooks |-> hooks, optional |-> optional]

ALL_TESTS ==
    {Test("test_system_identity", "system_identity", <<>>,
          {"system_id", "system_type", "capabilities"}, FALSE, FALSE),
     Test("test_snapshot_id_after_commit", "snapshotable", <<>>,
          {"snapshot_id"}, TRUE, FALSE),
     Test("test_parent_ids_root_commit", "snapshotable", <<>>,
          {"snapshot_id", "parent_ids"}, TRUE, FALSE),
     Test("test_parent_ids_chain", "snapshotable", <<>>,
          {"snapshot_id", "parent_ids"}, TRUE, FALSE),
     Test("test_snapshot_meta", "snapshotable", <<>>,
          {"snapshot_id", "snapshot_meta"}, TRUE, FALSE),
     Test("test_as_of", "snapshotable", <<>>,
          {"snapshot_id", "as_of"}, TRUE, FALSE),
     Test("test_initial_branches", "branchable", <<"branchable">>,
          {"branches", "current_branch"}, FALSE, FALSE),
     Test("test_create_branch", "branchable", <<"branchable">>,
          {"branch", "branches", "current_branch"}, TRUE, FALSE),
     Test("test_checkout", "branchable", <<"branchable">>,
          {"branch", "checkout", "current_branch"}, TRUE, FALSE),
     Test("test_branch_isolation", "branchable", <<"branchable">>,
          {"branch", "checkout", "snapshot_id"}, TRUE, FALSE),
     Test("test_delete_branch", "branchable", <<"branchable">>,
          {"branch", "branches", "delete_branch"}, TRUE, FALSE),
     Test("test_history", "graphable", <<"graphable">>,
          {"history", "snapshot_id"}, TRUE, FALSE),
     Test("test_history_limit", "graphable", <<"graphable">>,
          {"history"}, TRUE, FALSE),
     Test("test_ancestors", "graphable", <<"graphable">>,
          {"ancestors", "snapshot_id"}, TRUE, FALSE),
     Test("test_ancestor_predicate", "graphable", <<"graphable">>,
          {"is_ancestor", "snapshot_id"}, TRUE, FALSE),
     Test("test_common_ancestor", "graphable", <<"graphable", "branchable">>,
          {"branch", "checkout", "common_ancestor", "snapshot_id"}, TRUE, FALSE),
     Test("test_commit_info", "graphable", <<"graphable">>,
          {"snapshot_id", "snapshot_meta"}, TRUE, FALSE),
     Test("test_merge", "mergeable", <<"mergeable">>,
          {"branch", "checkout", "merge", "snapshot_id"}, TRUE, FALSE),
     Test("test_merge_parent_ids", "mergeable", <<"mergeable">>,
          {"branch", "checkout", "merge", "parent_ids"}, TRUE, FALSE),
     Test("test_conflicts_empty_for_compatible", "mergeable", <<"mergeable">>,
          {"branch", "checkout", "conflicts", "snapshot_id"}, TRUE, FALSE),
     Test("test_diff", "mergeable", <<"mergeable">>,
          {"diff", "snapshot_id"}, TRUE, FALSE),
     Test("test_write_read_roundtrip", "data_consistency", <<>>, {}, TRUE, FALSE),
     Test("test_count_after_writes", "data_consistency", <<>>, {}, TRUE, FALSE),
     Test("test_multiple_entries_readable", "data_consistency", <<>>, {}, TRUE, FALSE),
     Test("test_branch_data_isolation", "data_consistency", <<"branchable">>,
          {"branch", "checkout"}, TRUE, FALSE),
     Test("test_delete_entry_consistency", "data_consistency", <<>>, {}, TRUE, TRUE),
     Test("test_overwrite_entry", "data_consistency", <<>>, {}, TRUE, TRUE)}

\* What a fixture's hooks (mutate, commit, write_entry, ...) do with the
\* system they are given: return it, return None, return another object, or
\* raise.
HookBehaviours == {"same", "none", "other", "raise"}

\* The objects a check's local sys is bound to: create_system's n-th call
\* gives system n; NoneObject is None and OtherObject an object that no
\* create_system call returned.
NoneObject == 0
OtherObject == -1

\* The fixtures: the capabilities their systems report, what their hooks
\* return, and whether the optional delete_entry hook is there.
Fixtures ==
    [caps : SUBSET CapNames, hooks : HookBehaviours, delete_entry : BOOLEAN]

\* _has_capability(fixture, cap): getattr(caps, cap, False) of a system that
\* is created for the question and closed in the finally clause.
has_capability(fixture, cap) == cap \in fixture.caps

\* The first capability of needs the fixture lacks, 0 when it has them all: a
\* check returns at the first _has_capability that is False.
FirstMissing(needs, fixture) ==
    IF \A i \in 1..Len(needs) : has_capability(fixture, needs[i]) THEN 0
    ELSE CHOOSE i \in 1..Len(needs) :
            /\ ~has_capability(fixture, needs[i])
            /\ \A j \in 1..(i - 1) : has_capability(fixture, needs[j])

\* What one run of a check leaves behind.
Run(test, fixture, result, made, closed, invoked) ==
    [test |-> test.name, group |-> test.group, caps |-> fixture.caps,
     hooks |-> fixture.hooks, delete_entry |-> fixture.delete_entry,
     result |-> result, made |-> made,
     closed |-> closed, invoked |-> invoked]

\* test_fn(fixture) of a check, asserts saying whether its assertions hold:
\*   if fix.get("delete_entry") is None: return
\*   if not _has_capability(fix, cap): return        (for each cap of needs)
\*   sys = fix["create_system"]()
\*   try:     sys = fix["mutate"](sys) ... sys.op() ... assert ...
\*   finally: fix["close"](sys)
\* Every hook's return value is bound to sys, so close gets the last of them.
test_fn(test, fixture, asserts) ==
    LET miss == FirstMissing(test.needs, fixture)
        asked == 1..(IF miss = 0 THEN Len(test.needs) ELSE miss)
        sys == Len(test.needs) + 1
        hooks == IF test.hooks THEN fixture.hooks ELSE "same"
        verdict == IF asserts THEN "pass" ELSE "fail"
    IN  IF test.optional /\ ~fixture.delete_entry
        THEN Run(test, fixture, "skip", {}, {}, {})
        ELSE IF miss # 0
        THEN Run(test, fixture, "skip", asked, asked, {})
        ELSE CASE hooks = "same" ->
                    Run(test, fixture, verdict, asked \cup {sys},
                        asked \cup {sys}, test.ops)
               [] hooks = "raise" ->
                    Run(test, fixture, "error", asked \cup {sys},
                        asked \cup {sys}, {})
               [] hooks = "none" ->
                    Run(test, fixture, IF test.ops = {} THEN verdict ELSE "error",
                        asked \cup {sys}, asked \cup {NoneObject}, {})
               [] hooks = "other" ->
                    Run(test, fixture, verdict, asked \cup {sys},
                        asked \cup {OtherObject}, test.ops)

\* No check was run yet.
NotRun ==
    [test |-> "", group |-> "", caps |-> {}, hooks |-> "same",
     delete_entry |-> FALSE, result |-> "", made |-> {}, closed |-> {},
     invoked |-> {}]

\* The fixture run_compliance_tests was called with: any at its first check,
\* the same one at every later check.
FixtureInUse ==
    IF harness = NotRun THEN Fixtures
    ELSE {[caps |-> harness.caps, hooks |-> harness.hooks,
           delete_entry |-> harness.delete_entry]}

\* run_compliance_tests calls one check of ALL_TESTS with the fixture.
RunCheck ==
    \E test \in ALL_TESTS, fixture \in FixtureInUse, asserts \in BOOLEAN :
        /\ harness' = test_fn(test, fixture, asserts)
        /\ last' = Outcome(test.name, "", NoRef,
                           test_fn(test, fixture, asserts).result \in {"pass", "skip"})
        /\ UNCHANGED <<repoVars, chain, hlcVars, refVars, handles, ov, ret, caps>>

\* ------------------------------------------- to_json / from_json (types.py)
\* A Python dict: its items, a set of <<key, value>> pairs. A value that may
\* be None is an Optional.
DictGet(data, key, default) ==
    IF \E item \in data : item[1] = key
    THEN (CHOOSE item \in data : item[1] = key)[2]
    ELSE default

\* A Python list, as opposed to a tuple or a set of the same items.
List(items) == [json |-> "list", items |-> items]

\* list(a_set): the elements in the order the set iterates them.
ListOf(set) ==
    List(CHOOSE items \in [1..Cardinality(set) -> set] : SeqToSet(items) = set)

\* An HLC that counts as false when both its fields are 0, as a number would.
HLCTruthyNonZero(h) == h.physical # 0 \/ h.logical # 0

\* bool(h) of an HLC: the dataclass defines no __bool__ and no __len__, so
\* every instance is true.
HLCTruthy(h) == TRUE

\* bool(d) of a dict: true unless it is empty.
DictTruthy(d) == d # {}

\* HLC.to_json
HLC_to_json(self) ==
    {<<"physical", self.physical>>, <<"logical", self.logical>>}

\* HLC.from_json
HLC_from_json(data) ==
    HLC(DictGet(data, "physical", 0), DictGet(data, "logical", 0))

\* SnapshotRef.to_json
SnapshotRef_to_json(self) ==
    {<<"system-id", self.system_id>>,
     <<"snapshot-id", self.snapshot_id>>,
     <<"parent-ids", ListOf(self.parent_ids)>>,
     <<"hlc", IF self.hlc # None /\ HLCTruthy(self.hlc[1])
              THEN Some(HLC_to_json(self.hlc[1])) ELSE None>>,
     <<"content-hash", self.content_hash>>}

\* SnapshotRef.from_json
SnapshotRef_from_json(data) ==
    SnapshotRef(DictGet(data, "system-id", ""),
                DictGet(data, "snapshot-id", ""),
                SeqToSet(DictGet(data, "parent-ids", List(<<>>)).items),
                IF DictGet(data, "hlc", None) # None
                      /\ DictTruthy(DictGet(data, "hlc", None)[1])
                THEN Some(HLC_from_json(DictGet(data, "hlc", None)[1]))
                ELSE None,
                DictGet(data, "content-hash", None))

\* Capabilities.to_json
Capabilities_to_json(self) ==
    {<<"snapshotable", self.snapshotable>>, <<"branchable", self.branchable>>,
     <<"graphable", self.graphable>>, <<"mergeable", self.mergeable>>,
     <<"overlayable", self.overlayable>>, <<"watchable", self.watchable>>}

\* Capabilities.from_json: cls(**data), a field left out takes its default.
Capabilities_from_json(data) ==
    [field \in DOMAIN capabilitiesDefault |->
        DictGet(data, field, capabilitiesDefault[field])]

\* Conflict(path, base, ours, theirs)
Conflict(path, base, ours, theirs) ==
    [path |-> path, base |-> base, ours |-> ours, theirs |-> theirs]

\* Conflict.to_json: the path tuple becomes a list.
Conflict_to_json(self) ==
    {<<"path", List(self.path)>>,
     <<"base", self.base>>, <<"ours", self.ours>>, <<"theirs", self.theirs>>}

\* Conflict.from_json: the path list becomes a tuple again.
Conflict_from_json(data) ==
    Conflict(DictGet(data, "path", List(<<>>)).items,
             DictGet(data, "base", None),
             DictGet(data, "ours", None),
             DictGet(data, "theirs", None))

\* The values that are turned into JSON and back, each with its class.
JsonInputs ==
    {[class |-> "HLC", value |-> h] : h \in HLCInputs}
    \cup {[class |-> "SnapshotRef", value |-> SnapshotRef(sys, "c3", p, h, ch)] :
            sys \in SystemIds, p \in SUBSET {"c1", "c2"},
            h \in {None} \cup {Some(x) : x \in HLCInputs},
            ch \in {None, Some("h1")}}
    \cup {[class |-> "Capabilities", value |-> c] :
            c \in [DOMAIN capabilitiesDefault -> BOOLEAN]}
    \cup {[class |-> "Conflict", value |-> Conflict(path, b, o, t)] :
            path \in {<<>>, <<"data">>, <<"data", "shared">>},
            b \in {None, Some("v1")}, o \in {None, Some("v1")},
            t \in {None, Some("v2")}}

\* cls.from_json(v.to_json()) for a value of each class.
RoundTrip(v) ==
    CASE v.class = "HLC" -> HLC_from_json(HLC_to_json(v.value))
      [] v.class = "SnapshotRef" -> SnapshotRef_from_json(SnapshotRef_to_json(v.value))
      [] v.class = "Capabilities" -> Capabilities_from_json(Capabilities_to_json(v.value))
      [] v.class = "Conflict" -> Conflict_from_json(Conflict_to_json(v.value))

\* A value is written as JSON and read back.
JsonRoundTrip ==
    \E v \in JsonInputs :
        /\ ret' = [op |-> "from_json", self |-> v, arg |-> NoRef, out |-> RoundTrip(v)]
        /\ last' = Outcome("from_json", v.class, NoRef, TRUE)
        /\ UNCHANGED <<repoVars, chain, hlcVars, refVars, handles, ov, harness, caps>>

\* ------------------------------------ Overlay (types.py) and Overlayable
\* The three modes the docstring of Overlay names, and the strings an Overlay
\* is made with: mode is a plain str field.
Modes == {"frozen", "following", "gated"}
ModeInputs == Modes \cup {"bogus"}

\* The overlays a client makes.
OverlayIds == {"o1", "o2"}

\* The states the parent commits and the overlays write.
OverlayValues == {"p1", "p2"}

\* Overlay(overlay_id, parent, mode, base_snapshot, local_writes, created_at);
\* parent is a reference to the one parent system.
Overlay(overlay_id, mode, base_snapshot, local_writes, created_at) ==
    [overlay_id |-> overlay_id, parent |-> "parent", mode |-> mode,
     base_snapshot |-> base_snapshot, local_writes |-> local_writes,
     created_at |-> created_at]

\* Overlay.to_json
Overlay_to_json(self) ==
    {<<"overlay-id", self.overlay_id>>,
     <<"mode", self.mode>>,
     <<"base-snapshot", IF self.base_snapshot # None
                        THEN Some(SnapshotRef_to_json(self.base_snapshot[1]))
                        ELSE None>>,
     <<"created-at", IF self.created_at # None /\ HLCTruthy(self.created_at[1])
                     THEN Some(HLC_to_json(self.created_at[1])) ELSE None>>}

\* The parent system: its snapshots (the readable state of each, the last one
\* is the current one), its branch heads, and its registry of live overlays.
ParentInit ==
    [snaps |-> <<"p0">>, heads |-> [b \in {"main"} |-> 1], registry |-> {}]

\* No overlay was made yet.
NoOverlays ==
    [parent |-> ParentInit,
     held |-> [id \in {} |-> Overlay("", "frozen", None, None, None)],
     op |-> "", id |-> "", out |-> Raised("")]

\* The parent's current snapshot as a SnapshotRef.
ParentRef(parent) ==
    SnapshotRef("parent", Len(parent.snaps), {Len(parent.snaps) - 1} \ {0}, None, None)

\* Overlays that never count as terminal.
TerminalNever(id) == FALSE

\* An overlay is terminal once the parent's registry no longer holds it.
Terminal(id) == id \notin ov.parent.registry

\* An observation point that follows the parent in gated mode too.
ObservationPointFollowing(o) == ParentRef(ov.parent)

\* The observation point of an overlay: the parent's current snapshot in
\* following mode, base_snapshot in frozen and gated mode.
ObservationPoint(o) ==
    IF o.mode = "following" THEN ParentRef(ov.parent) ELSE o.base_snapshot[1]

\* peek_parent(overlay): the parent's state at the observation point, without
\* the overlay's own writes.
peek_parent(id) == ov.parent.snaps[ObservationPoint(ov.held[id]).snapshot_id]

\* base_ref(overlay)
base_ref(id) == ObservationPoint(ov.held[id])

\* overlay_writes(overlay)
overlay_writes(id) == ov.held[id].local_writes

\* The record of an overlay call.
OverlayCall(op, id, out) ==
    /\ last' = Outcome(op, id, NoRef, out.ok)
    /\ UNCHANGED <<repoVars, chain, hlcVars, refVars, handles, ret, harness, caps>>

\* A call that fails with InvalidState (any operation on a terminal overlay,
\* advance on an overlay that is not gated) and changes nothing.
FailsInvalidState(op, id) ==
    /\ ov' = [ov EXCEPT !.op = op, !.id = id, !.out = Raised("InvalidState")]
    /\ OverlayCall(op, id, Raised("InvalidState"))

\* A value returned by a call that changes nothing.
Gives(op, id, value) ==
    /\ ov' = [ov EXCEPT !.op = op, !.id = id,
                        !.out = [ok |-> TRUE, error |-> "", value |-> value]]
    /\ OverlayCall(op, id, [ok |-> TRUE])

\* overlay(mode): a new Overlay at the parent's current snapshot with no
\* writes, entered into the parent's registry.
OverlayNew ==
    \E id \in OverlayIds \ DOMAIN ov.held, mode \in Modes :
        /\ ov' = [ov EXCEPT
                    !.held = (id :> Overlay(id, mode, Some(ParentRef(ov.parent)),
                                            None, Some(HLC(MaxWall, 0)))) @@ @,
                    !.parent.registry = @ \cup {id},
                    !.op = "overlay", !.id = id,
                    !.out = [ok |-> TRUE, error |-> "", value |-> <<>>]]
        /\ OverlayCall("overlay", id, [ok |-> TRUE])

\* The overlay's own write path: the write lands in local_writes.
OverlayWrite ==
    \E id \in DOMAIN ov.held, v \in OverlayValues :
        IF Terminal(id) THEN FailsInvalidState("write", id)
        ELSE /\ ov' = [ov EXCEPT !.held[id].local_writes = Some(v),
                                 !.op = "write", !.id = id,
                                 !.out = [ok |-> TRUE, error |-> "", value |-> <<>>]]
             /\ OverlayCall("write", id, [ok |-> TRUE])

\* A commit on the parent itself.
ParentCommit ==
    \E v \in OverlayValues :
        /\ Len(ov.parent.snaps) < MaxParent
        /\ ov' = [ov EXCEPT !.parent.snaps = Append(@, v),
                            !.parent.heads["main"] = Len(ov.parent.snaps) + 1,
                            !.op = "commit", !.id = "",
                            !.out = [ok |-> TRUE, error |-> "", value |-> <<>>]]
        /\ OverlayCall("commit", "", [ok |-> TRUE])

\* advance(overlay): in gated mode base_snapshot becomes the parent's current
\* snapshot and local_writes stay; in another mode it is an error or nothing.
Advance ==
    \E id \in DOMAIN ov.held :
        IF Terminal(id) THEN FailsInvalidState("advance", id)
        ELSE IF ov.held[id].mode # "gated"
        THEN \/ FailsInvalidState("advance", id)
             \/ Gives("advance", id, <<>>)
        ELSE /\ ov' = [ov EXCEPT !.held[id].base_snapshot = Some(ParentRef(ov.parent)),
                                 !.op = "advance", !.id = id,
                                 !.out = [ok |-> TRUE, error |-> "", value |-> <<>>]]
             /\ OverlayCall("advance", id, [ok |-> TRUE])

\* peek_parent, base_ref and overlay_writes called on an overlay.
PeekParent ==
    \E id \in DOMAIN ov.held :
        IF Terminal(id) THEN FailsInvalidState("peek_parent", id)
        ELSE Gives("peek_parent", id, <<peek_parent(id)>>)
BaseRef ==
    \E id \in DOMAIN ov.held :
        IF Terminal(id) THEN FailsInvalidState("base_ref", id)
        ELSE Gives("base_ref", id, <<base_ref(id)>>)
OverlayWrites ==
    \E id \in DOMAIN ov.held :
        IF Terminal(id) THEN FailsInvalidState("overlay_writes", id)
        ELSE Gives("overlay_writes", id, overlay_writes(id))

\* Does the parent's state since the observation point stand against the
\* overlay's writes? (The three-way merge of one state.)
Incompatible(id) ==
    /\ ov.held[id].local_writes # None
    /\ peek_parent(id) # ov.parent.snaps[Len(ov.parent.snaps)]
    /\ ov.held[id].local_writes[1] # ov.parent.snaps[Len(ov.parent.snaps)]

\* merge_down(overlay): the writes are applied onto the parent's current
\* head and the overlay becomes terminal; Conflict when the parent advanced
\* incompatibly, and then nothing changes.
MergeDown ==
    \E id \in DOMAIN ov.held :
        IF Terminal(id) THEN FailsInvalidState("merge_down", id)
        ELSE IF Incompatible(id)
        THEN /\ ov' = [ov EXCEPT !.op = "merge_down", !.id = id,
                                 !.out = Raised("Conflict")]
             /\ OverlayCall("merge_down", id, Raised("Conflict"))
        ELSE /\ ov.held[id].local_writes # None => Len(ov.parent.snaps) < MaxParent
             /\ ov' = [ov EXCEPT
                         !.parent.snaps = IF ov.held[id].local_writes = None THEN @
                                          ELSE Append(@, ov.held[id].local_writes[1]),
                         !.parent.heads["main"] =
                             IF ov.held[id].local_writes = None THEN @ ELSE @ + 1,
                         !.parent.registry = @ \ {id},
                         !.op = "merge_down", !.id = id,
                         !.out = [ok |-> TRUE, error |-> "", value |-> <<>>]]
             /\ OverlayCall("merge_down", id, [ok |-> TRUE])

\* A discard that pushes the writes to the parent before it drops them.
ParentAfterDiscardPushing(id) ==
    IF ov.held[id].local_writes = None \/ Len(ov.parent.snaps) >= MaxParent
    THEN [ov.parent EXCEPT !.registry = @ \ {id}]
    ELSE [ov.parent EXCEPT !.registry = @ \ {id},
                           !.snaps = Append(@, ov.held[id].local_writes[1]),
                           !.heads["main"] = @ + 1]

\* The parent after discard(overlay): the overlay is off the registry, and
\* nothing else of the parent changed.
ParentAfterDiscard(id) == [ov.parent EXCEPT !.registry = @ \ {id}]

\* discard(overlay): terminal; local_writes are dropped.
Discard ==
    \E id \in DOMAIN ov.held :
        IF Terminal(id) THEN FailsInvalidState("discard", id)
        ELSE /\ ov' = [ov EXCEPT !.parent = ParentAfterDiscard(id),
                                 !.held[id].local_writes = None,
                                 !.op = "discard", !.id = id,
                                 !.out = [ok |-> TRUE, error |-> "", value |-> <<>>]]
             /\ OverlayCall("discard", id, [ok |-> TRUE])

\* An Overlay value made by a client with the dataclass's constructor.
OverlayInit ==
    \E id \in OverlayIds \ DOMAIN ov.held, mode \in ModeInputs :
        /\ ov' = [ov EXCEPT
                    !.held = (id :> Overlay(id, mode, None, None, None)) @@ @,
                    !.op = "__init__", !.id = id,
                    !.out = [ok |-> TRUE, error |-> "", value |-> <<>>]]
        /\ OverlayCall("__init__", id, [ok |-> TRUE])

\* overlay.mode = mode: Overlay is a dataclass that is not frozen, so the
\* assignment goes through.
OverlaySetMode ==
    \E id \in DOMAIN ov.held, mode \in ModeInputs :
        /\ ov' = [ov EXCEPT !.held[id].mode = mode,
                            !.op = "__setattr__", !.id = id,
                            !.out = [ok |-> TRUE, error |-> "", value |-> <<>>]]
        /\ OverlayCall("__setattr__", id, [ok |-> TRUE])

\* overlay.to_json()
OverlayToJson ==
    \E id \in DOMAIN ov.held :
        Gives("to_json", id, Overlay_to_json(ov.held[id]))

\* ========================================================== specifications
\* The state create_system leaves (git init -b main, an empty data/.gitkeep,
\* one commit "init"), with the clock and the SnapshotRef values at rest.
Init ==
    /\ hlc = HLC(0, 0)
    /\ hlcLast = NoHlcOp
    /\ refA = SnapshotRef("git:/r1", "c1", {}, None, None)
    /\ refB = SnapshotRef("git:/r1", "c1", {}, None, None)
    /\ commits = <<[parents |-> <<>>, tree |-> EmptyTree, msg |-> "init"]>>
    /\ heads = [b \in {"main"} |-> 1]
    /\ HEAD = [branch |-> "main", commit |-> 0]
    /\ index = EmptyTree
    /\ mergeHead = 0
    /\ last = Outcome("create_system", "", NoRef, TRUE)
    /\ chain = 0
    /\ caps = capabilities
    /\ handles = [h \in HandleIds |-> GitSystem(RepoPath)]
    /\ ret = NoCall
    /\ harness = NotRun
    /\ ov = NoOverlays

\* The clock alone, stepped by tick and receive from any starting value.
NextHLC == HlcTick \/ HlcReceive

InitHLC ==
    /\ hlc \in HLCInputs
    /\ hlcLast = NoHlcOp
    /\ refA = SnapshotRef("git:/r1", "c1", {}, None, None)
    /\ refB = SnapshotRef("git:/r1", "c1", {}, None, None)
    /\ commits = <<[parents |-> <<>>, tree |-> EmptyTree, msg |-> "init"]>>
    /\ heads = [b \in {"main"} |-> 1]
    /\ HEAD = [branch |-> "main", commit |-> 0]
    /\ index = EmptyTree
    /\ mergeHead = 0
    /\ last = Outcome("create_system", "", NoRef, TRUE)
    /\ chain = 0
    /\ caps = capabilities
    /\ handles = [h \in HandleIds |-> GitSystem(RepoPath)]
    /\ ret = NoCall
    /\ harness = NotRun
    /\ ov = NoOverlays
SpecHLC == InitHLC /\ [][NextHLC]_vars

\* SnapshotRef values alone.
NextRef == MakeRefA \/ MakeRefB
SpecRef == Init /\ [][NextRef]_vars

\* One git repository behind a GitSystem, from create_system on.
Next ==
    \/ QueryCapabilities
    \/ Mutate \/ Commit({"msg"})
    \/ Branch({NoRef} \cup RefInputs0) \/ DeleteBranch \/ Checkout(BranchRefs)
    \/ Merge(RefInputs0, {""})
Spec == Init /\ [][Next]_vars

\* The repository driven through the data hooks: one entry written with two
\* values and deleted, on two branches that are checked out and merged.
NextData ==
    \/ WriteEntry({"shared"}, Values) \/ DeleteEntry({"shared"})
    \/ Commit({"msg"})
    \/ Branch({NoRef}) \/ DeleteBranch \/ Checkout(BranchRefs)
    \/ Merge(BranchRefs, {""})
SpecData == Init /\ [][NextData]_vars

\* The repository with commit_info and the operations GitSystem lacks called
\* in between commits.
NextOptional ==
    \/ Mutate \/ Commit({"msg", ""})
    \/ Branch({NoRef})
    \/ CommitInfo \/ CallOptional
SpecOptional == Init /\ [][NextOptional]_vars

\* The harness alone: checks run one after another on fixtures of every kind.
NextHarness == RunCheck
SpecHarness == Init /\ [][NextHarness]_vars

\* One branch of entries written, deleted and committed, the file .gitkeep
\* among the keys.
EntryKeys == {"shared", GitKeep}
NextEntries ==
    \/ WriteEntry({"shared"}, Values) \/ WriteEntry({GitKeep}, {"v1"})
    \/ DeleteEntry(EntryKeys)
    \/ Commit({"msg"})
SpecEntries == Init /\ [][NextEntries]_vars

\* The value types alone, written as JSON and read back.
NextJson == JsonRoundTrip
SpecJson == Init /\ [][NextJson]_vars

\* A parent system with up to two overlays: the parent commits, the overlays
\* are written, advanced, read, merged down and discarded.
NextOverlay ==
    \/ OverlayNew \/ OverlayWrite \/ ParentCommit
    \/ Advance \/ PeekParent \/ BaseRef \/ OverlayWrites
    \/ MergeDown \/ Discard
SpecOverlay == Init /\ [][NextOverlay]_vars

\* Overlay values in a client's hands: made, assigned to, written as JSON.
NextOverlayValue == OverlayInit \/ OverlaySetMode \/ OverlayToJson
SpecOverlayValue == Init /\ [][NextOverlayValue]_vars

\* The data repository with the probes conflicts and diff called in between.
NextProbe ==
    \/ WriteEntry({"shared"}, Values)
    \/ Commit({"msg"})
    \/ Branch({NoRef}) \/ Checkout(BranchRefs)
    \/ Merge(BranchRefs, {""})
    \/ Conflicts \/ Diff
SpecProbe == Init /\ [][NextProbe]_vars

\* The calls of test_branch_data_isolation: a shared entry before the fork,
\* then each branch writes the entry of its own, and the harness forks and
\* switches with its writes committed.
OwnKeys ==
    IF "feature" \notin DOMAIN heads THEN {"shared"}
    ELSE IF current_branch = "main" THEN {"main-only"}
    ELSE {"feature-only"}

WriteOwn == WriteEntry(OwnKeys, {"v1"})
ForkCommitted == index = HeadTree /\ Branch({NoRef})
SwitchCommitted == index = HeadTree /\ Checkout(BranchRefs)

NextIsolation == WriteOwn \/ Commit({"msg"}) \/ ForkCommitted \/ SwitchCommitted
SpecIsolation == Init /\ [][NextIsolation]_vars

\* ================================================================== claims

\* C1: h.tick() is strictly greater than h for every wall-clock reading,
\* also one behind h.physical: it is (t, 0) when t > h.physical and
\* (h.physical, h.logical + 1) otherwise.
C1_TickStrictlyGreater ==
    hlcLast.op = "tick" =>
        /\ HLCLess(hlcLast.self, hlc)
        /\ hlcLast.wall > hlcLast.self.physical => hlc = HLC(hlcLast.wall, 0)
        /\ hlcLast.wall <= hlcLast.self.physical =>
              hlc = HLC(hlcLast.self.physical, hlcLast.self.logical + 1)

\* C1 witness: a tick taken while the wall clock is behind the clock.
C1_Witness ==
    /\ hlcLast.op = "tick"
    /\ hlcLast.wall < hlcLast.self.physical
    /\ hlcLast.self.logical > 0

\* C2: h1.receive(h2) is >= h1 and >= h2, so a clock stepped by tick and
\* receive never goes backwards, whatever the wall clock reads.
C2_ReceiveNotBackwards ==
    /\ hlcLast.op = "receive" =>
          HLCLeq(hlcLast.self, hlc) /\ HLCLeq(hlcLast.remote, hlc)
    /\ hlcLast.op # "none" => HLCLeq(hlcLast.self, hlc)

\* C2 witness: a receive with the wall clock behind both clocks, the local
\* clock ahead of the remote one in physical time and behind it in logical.
C2_Witness ==
    /\ hlcLast.op = "receive"
    /\ hlcLast.wall < hlcLast.remote.physical
    /\ hlcLast.remote.physical < hlcLast.self.physical
    /\ hlcLast.self.logical < hlcLast.remote.logical

\* C3 as claimed: on a physical tie of h1 and h2 the logical component of
\* h1.receive(h2) exceeds max(h1.logical, h2.logical) for every wall reading.
C3_TieLogicalAlways ==
    (hlcLast.op = "receive" /\ hlcLast.self.physical = hlcLast.remote.physical) =>
        hlc.logical > Max2(hlcLast.self.logical, hlcLast.remote.logical)

\* C3 amended: on a physical tie the logical component exceeds the maximum
\* when the wall reading is not ahead of the tied physical time; when it is
\* ahead the result is (t, 0), still greater than both inputs.
C3_TieLogicalUnlessNovel ==
    (hlcLast.op = "receive" /\ hlcLast.self.physical = hlcLast.remote.physical) =>
        /\ hlcLast.wall <= hlcLast.self.physical =>
              /\ hlc.physical = hlcLast.self.physical
              /\ hlc.logical = Max2(hlcLast.self.logical, hlcLast.remote.logical) + 1
        /\ hlcLast.wall > hlcLast.self.physical => hlc = HLC(hlcLast.wall, 0)
        /\ HLCLess(hlcLast.self, hlc) /\ HLCLess(hlcLast.remote, hlc)

\* C3 witness: a tie received with the wall clock behind, remote logical ahead.
C3_Witness ==
    /\ hlcLast.op = "receive"
    /\ hlcLast.self.physical = hlcLast.remote.physical
    /\ hlcLast.wall < hlcLast.self.physical
    /\ hlcLast.remote.logical > hlcLast.self.logical

\* C4 as claimed: two SnapshotRef values are equal exactly when their
\* (system_id, snapshot_id) pairs are equal.
C4_EqIsIdentityPair ==
    SnapshotRefEq(refA, refB) <=>
        (refA.system_id = refB.system_id /\ refA.snapshot_id = refB.snapshot_id)

\* C4 amended: equal SnapshotRef values have equal (system_id, snapshot_id)
\* pairs, and values with equal pairs are equal exactly when parent_ids, hlc
\* and content_hash agree too.
C4_EqIsAllFields ==
    /\ SnapshotRefEq(refA, refB) =>
          (refA.system_id = refB.system_id /\ refA.snapshot_id = refB.snapshot_id)
    /\ (refA.system_id = refB.system_id /\ refA.snapshot_id = refB.snapshot_id) =>
          (SnapshotRefEq(refA, refB) <=>
              /\ refA.parent_ids = refB.parent_ids
              /\ refA.hlc = refB.hlc
              /\ refA.content_hash = refB.content_hash)

\* C4 witness: the same snapshot of the same system, recorded with different
\* parents, compares unequal.
C4_Witness ==
    /\ refA.system_id = refB.system_id
    /\ refA.snapshot_id = refB.snapshot_id
    /\ refA.parent_ids # refB.parent_ids
    /\ ~SnapshotRefEq(refA, refB)
\* C5: in every reachable state, after any commits, branch, checkout,
\* delete_branch and merge calls, capabilities() is the one descriptor the
\* adapter is built with, and its snapshotable bit is true.
C5_CapabilitiesFixed ==
    /\ caps.snapshotable = TRUE
    /\ caps = [snapshotable |-> TRUE, branchable |-> TRUE, graphable |-> TRUE,
               mergeable |-> TRUE, overlayable |-> FALSE, watchable |-> FALSE]
    /\ capabilities = caps

\* C5 witness: capabilities() asked after commits on two branches, a checkout,
\* a true merge and the deletion of the merged branch.
C5_Witness ==
    /\ last.op = "capabilities"
    /\ Len(commits[HeadCommit].parents) = 2
    /\ DOMAIN heads = {"main"}
    /\ caps.snapshotable

\* The first commit made on the system create_system returned.
FirstCommitMade == last.op = "commit" /\ last.ok /\ Len(commits) = 2

\* C6 as claimed: the first commit made on a fresh system has parent_ids()
\* equal to the empty set.
C6_FirstCommitIsRoot ==
    FirstCommitMade => parent_ids(NoRef) = {}

\* C6 amended: the first commit made on a fresh system has the init commit of
\* create_system as its one parent, and that init commit is the root: its
\* parent_ids is the empty set.
C6_FirstCommitOnInit ==
    FirstCommitMade =>
        /\ parent_ids(NoRef) = {1}
        /\ parent_ids(IdRef(1)) = {}

\* C6 witness: the first commit was just made.
C6_Witness == FirstCommitMade /\ snapshot_id = 2

\* C7: a commit C2 made directly after a commit C1, with no checkout or merge
\* called in between, has C1 among its parent_ids().
C7_ChainParent ==
    (last.op = "commit" /\ last.ok /\ last.ref.id # 0) =>
        last.ref.id \in parent_ids(NoRef)

\* C7 witness: two commits in a row, the second just made.
C7_Witness ==
    /\ last.op = "commit" /\ last.ok /\ last.ref.id # 0
    /\ snapshot_id # last.ref.id

\* C8: parent_ids is empty only for a root snapshot; in particular an id that
\* is no snapshot of the system never yields the empty set.
C8_EmptyOnlyForRoot ==
    \A i \in SnapIdInputs :
        parent_ids(IdRef(i)) = {} =>
            (i \in CommitIds /\ Len(commits[i].parents) = 0)

\* C9: as_of and snapshot_meta fail for an id that is no snapshot known to the
\* system; neither returns a value for it.
C9_UnknownIdFails ==
    \A i \in SnapIdInputs \ CommitIds :
        /\ ~as_of(IdRef(i)).ok
        /\ ~snapshot_meta(IdRef(i)).ok

\* C10: branch(name2) with a name no branch has adds name2 to branches() at
\* the current snapshot and leaves current_branch(), snapshot_id(), every
\* other branch head, the commits and the staged tree as they were; the call
\* returns (ok) on the one repository the handle names.
C10_BranchFrame ==
    [][(last'.op = "branch" /\ last'.ref = NoRef /\ last'.name \notin branches) =>
          /\ last'.ok
          /\ branches' = branches \cup {last'.name}
          /\ current_branch' = current_branch
          /\ snapshot_id' = snapshot_id
          /\ \A b \in DOMAIN heads : heads'[b] = heads[b]
          /\ heads'[last'.name] = snapshot_id
          /\ UNCHANGED <<commits, index, mergeHead>>]_vars

\* C10 witness: feature was just created from main with a change staged.
C10_Witness ==
    /\ last.op = "branch" /\ last.ok /\ last.ref = NoRef
    /\ last.name = "feature"
    /\ current_branch = "main"
    /\ index # HeadTree
    /\ Len(commits) > 1

\* C11: delete_branch(name) with name the current branch fails, and branches(),
\* current_branch() and every branch head are afterwards what they were.
C11_DeleteCurrentFails ==
    [][(last'.op = "delete_branch" /\ last'.name = current_branch) =>
          /\ ~last'.ok
          /\ branches' = branches
          /\ current_branch' = current_branch
          /\ heads' = heads
          /\ snapshot_id' = snapshot_id]_vars

\* C11 witness: delete_branch refused for the current branch while a second
\* branch exists.
C11_Witness ==
    /\ last.op = "delete_branch" /\ ~last.ok
    /\ last.name = current_branch
    /\ Cardinality(branches) = 2

\* C12: delete_branch(name) succeeds for every existing branch other than the
\* current one, also one with commits not merged into the current branch, and
\* name is then gone from branches().
C12_DeleteOtherSucceeds ==
    [][(/\ last'.op = "delete_branch"
        /\ last'.name \in branches
        /\ last'.name # current_branch) =>
          (last'.ok /\ last'.name \notin branches')]_vars

\* C13 as claimed: after checkout(name) of an existing branch, current_branch()
\* is name and snapshot_id() is the head of name, with branches() and every
\* branch head unchanged.
C13_CheckoutSwitches ==
    [][(last'.op = "checkout" /\ last'.name \in DOMAIN heads) =>
          /\ current_branch' = last'.name
          /\ snapshot_id' = heads[last'.name]
          /\ branches' = branches
          /\ heads' = heads]_vars

\* C13 amended: checkout(name) of an existing branch leaves branches() and
\* every branch head unchanged; when it returns, current_branch() is name and
\* snapshot_id() is the head of name; when it raises (a merge is unresolved, or
\* a staged change would be overwritten) the current branch, the snapshot and
\* the staged tree are what they were; with nothing staged and no merge
\* unresolved it returns.
C13_CheckoutSwitchesOrRefuses ==
    [][(last'.op = "checkout" /\ last'.name \in DOMAIN heads) =>
          /\ branches' = branches
          /\ heads' = heads
          /\ commits' = commits
          /\ last'.ok =>
                /\ current_branch' = last'.name
                /\ snapshot_id' = heads[last'.name]
          /\ ~last'.ok =>
                /\ current_branch' = current_branch
                /\ snapshot_id' = snapshot_id
                /\ index' = index
                /\ mergeHead # 0 \/ index # HeadTree
          /\ (mergeHead = 0 /\ index = HeadTree) => last'.ok]_vars

\* C13 witness: feature, whose head differs from main's, was just checked out
\* and a staged change was carried over.
C13_Witness ==
    /\ last.op = "checkout" /\ last.ok /\ last.name = "feature"
    /\ current_branch = "feature"
    /\ "main" \in DOMAIN heads /\ heads["main"] # heads["feature"]
    /\ index # HeadTree

\* C14: a commit (and the hooks that stage changes) moves no branch head but
\* the current one, and a checkout of a branch made right after a commit
\* returns with snapshot_id() the head that branch had: after any number of
\* commits on B, checking out A yields the snapshot A had before them.
C14_CommitMovesOnlyCurrent ==
    [][/\ last'.op \in {"commit", "write_entry", "delete_entry", "mutate"} =>
            /\ DOMAIN heads' = DOMAIN heads
            /\ \A b \in DOMAIN heads : b # current_branch => heads'[b] = heads[b]
       /\ (/\ last'.op = "checkout" /\ last'.name \in DOMAIN heads
           /\ last.op = "commit" /\ last.ok) =>
            /\ last'.ok
            /\ snapshot_id' = heads[last'.name]]_vars

\* C14 witness: main checked out right after two commits made on feature.
C14_Witness ==
    /\ last.op = "checkout" /\ last.ok /\ last.name = "main"
    /\ "feature" \in DOMAIN heads
    /\ snapshot_id \in Reach(heads["feature"])
    /\ \E c \in Reach(heads["feature"]) \ {heads["feature"]} :
           c \notin Reach(snapshot_id)

\* The commit feature was forked at.
ForkTree == commits[MergeBase(heads["main"], heads["feature"])].tree

\* C15: with a shared entry committed before feature is forked and entries of
\* their own committed on main and on feature, the main-only entry reads as
\* absent on feature, the feature-only entry reads as absent on main, and the
\* shared entry reads with its value on both.
C15_BranchDataIsolation ==
    /\ current_branch = "feature" => read_entry("main-only") = Absent
    /\ current_branch = "main" => read_entry("feature-only") = Absent
    /\ ("feature" \in DOMAIN heads /\ ForkTree.data["shared"] # Absent) =>
          read_entry("shared") = ForkTree.data["shared"]

\* C15 witness: shared committed before the fork, main-only committed on main,
\* feature-only committed on feature, and main checked out again.
C15_Witness ==
    /\ last.op = "checkout" /\ last.ok /\ last.name = "main"
    /\ "feature" \in DOMAIN heads
    /\ ForkTree.data["shared"] = "v1"
    /\ commits[heads["main"]].tree.data["main-only"] = "v1"
    /\ commits[heads["feature"]].tree.data["feature-only"] = "v1"
    /\ read_entry("main-only") = "v1"
    /\ read_entry("feature-only") = Absent
    /\ read_entry("shared") = "v1"

Limits == 0..(MaxCommits + 1)

\* C17: history() is strictly newest-first: its first element is the current
\* snapshot_id() and every snapshot comes before all of its ancestors, after
\* any commits, checkouts and merges and whenever the commits were made.
C17_HistoryNewestFirst ==
    \A T \in Timings :
        LET hist == history(T, None, NoRef)
        IN  /\ hist[1] = snapshot_id
            /\ \A i, j \in DOMAIN hist :
                  (hist[j] # hist[i] /\ hist[j] \in Reach(hist[i])) => i < j

\* C18: for every N >= 0, history(limit=N) is the first min(N, length of
\* history()) elements of history(); history(limit=0) is empty.
C18_HistoryLimitPrefix ==
    \A T \in Timings, N \in Limits :
        LET hist == history(T, None, NoRef)
        IN  history(T, Some(N), NoRef) = SubSeq(hist, 1, Min2(N, Len(hist)))

\* C19: for every known snapshot s, ancestors(s) is exactly the set of
\* snapshots reachable from s by one or more parent links, and s is not in it.
C19_AncestorsExcludeSelf ==
    \A c \in CommitIds :
        /\ ancestors(IdRef(c)) = UNION {Reach(p) : p \in SeqToSet(commits[c].parents)}
        /\ c \notin ancestors(IdRef(c))

\* C20: is_ancestor is strict: is_ancestor(a, a) is false for every known a,
\* and for p reachable from c by parent links is_ancestor(p, c) is true and
\* is_ancestor(c, p) is false.
C20_IsAncestorStrict ==
    \A a \in CommitIds :
        /\ ~is_ancestor(IdRef(a), IdRef(a))
        /\ \A p \in Reach(a) \ {a} :
              is_ancestor(IdRef(p), IdRef(a)) /\ ~is_ancestor(IdRef(a), IdRef(p))

PlainCommitStep ==
    /\ last'.op = "commit" /\ last'.ok
    /\ mergeHead = 0
    /\ DOMAIN heads = BranchNames

\* The branch the latest call made and the snapshot it was made at have that
\* snapshot as their common ancestor.
ForkIsCommonAncestor ==
    common_ancestor(NameRef(last.name), IdRef(snapshot_id)) = Some(snapshot_id)

\* C22 as claimed: two branches forked at F and each advanced by commits have
\* common_ancestor(a, b) = F: the fork is the common ancestor when the branch
\* is made, and every commit on either branch leaves the common ancestor of
\* the two heads what it was.
C22_CommonAncestorIsFork ==
    [][/\ (last'.op = "branch" /\ last'.ok /\ last'.ref = NoRef) =>
            ForkIsCommonAncestor'
       /\ PlainCommitStep =>
            common_ancestor(NameRef("main"), NameRef("feature"))'
                = common_ancestor(NameRef("main"), NameRef("feature"))]_vars

\* C22 amended: the same, for commits that are new snapshots: a commit equal
\* in parent, tree, message and second to one made on the other branch is
\* that snapshot, and the common ancestor is then the shared commit, not F.
C22_CommonAncestorIsForkOfNew ==
    [][/\ (last'.op = "branch" /\ last'.ok /\ last'.ref = NoRef) =>
            ForkIsCommonAncestor'
       /\ (PlainCommitStep /\ Len(commits') > Len(commits)) =>
            common_ancestor(NameRef("main"), NameRef("feature"))'
                = common_ancestor(NameRef("main"), NameRef("feature"))]_vars

\* C22 witness: main and feature each advanced past their fork, which is not
\* the init commit, the latest commit just made.
C22_Witness ==
    /\ last.op = "commit" /\ last.ok
    /\ DOMAIN heads = BranchNames
    /\ \E f \in CommitIds \ {1} :
          /\ common_ancestor(NameRef("main"), NameRef("feature")) = Some(f)
          /\ commits[heads["main"]].parents = <<f>>
          /\ commits[heads["feature"]].parents = <<f>>
          /\ heads["main"] # heads["feature"]

\* The current head and the commit ref names have diverged: each has commits
\* the other has not.
Diverged(ref) ==
    /\ RevParse(ref) # 0
    /\ ~IsAncestorOrSelf(RevParse(ref), HeadCommit)
    /\ ~IsAncestorOrSelf(HeadCommit, RevParse(ref))

\* C23 as claimed: with main and feature both advanced after their fork,
\* merge(feature) on main produces a new snapshot whose parent_ids() has at
\* least two elements.
C23_MergeTwoParents ==
    [][(last'.op = "merge" /\ Diverged(last'.ref)) =>
          /\ last'.ok
          /\ snapshot_id' # snapshot_id
          /\ Cardinality(parent_ids(NoRef)') >= 2]_vars

\* C23 amended: with both advanced to diverged heads, a merge(feature) on
\* main that returns has produced a snapshot whose parent_ids() are the two
\* heads; it returns when nothing is staged and the two sides did not change
\* the same entry differently, and otherwise raises with no branch head moved.
C23_ReturnedMergeTwoParents ==
    [][(last'.op = "merge" /\ Diverged(last'.ref)) =>
          /\ last'.ok =>
                /\ snapshot_id' # snapshot_id
                /\ parent_ids(NoRef)' = {snapshot_id, RevParse(last'.ref)}
                /\ Cardinality(parent_ids(NoRef)') = 2
          /\ ~last'.ok => (heads' = heads /\ commits' = commits)
          /\ last'.ok <=>
                /\ mergeHead = 0
                /\ index = HeadTree
                /\ ~HasConflict(commits[MergeBase(HeadCommit, RevParse(last'.ref))].tree,
                                HeadTree, commits[RevParse(last'.ref)].tree)]_vars

\* C23 witness: feature, advanced on its own, was just merged into main,
\* advanced on its own too, and main's head has two parents.
C23_Witness ==
    /\ last.op = "merge" /\ last.ok /\ last.name = "feature"
    /\ current_branch = "main"
    /\ Len(commits[snapshot_id].parents) = 2
    /\ commits[snapshot_id].parents[2] = heads["feature"]
    /\ commits[snapshot_id].parents[1] # 1

\* C24: whenever conflicts(a, b) is the empty list, merging a into b completes
\* without raising for a conflict, also for snapshots that changed the same
\* entry differently.
C24_NoConflictsThenMerges ==
    [][(/\ last'.op = "merge"
        /\ mergeHead = 0
        /\ conflicts(last'.ref, IdRef(snapshot_id)) = <<>>) =>
          ~(~last'.ok /\ mergeHead' # 0)]_vars

\* C25: a merge that fails leaves the system in its prior state: the branch
\* set, every branch head, the current branch, the readable entries and what
\* a following commit or checkout would do are what they were.
C25_FailedMergeLeavesState ==
    [][(last'.op = "merge" /\ ~last'.ok) =>
          /\ branches' = branches
          /\ heads' = heads
          /\ current_branch' = current_branch
          /\ \A k \in Keys : read_entry(k)' = read_entry(k)
          /\ mergeHead' = mergeHead]_vars

\* C26: conflicts(a, b) and diff(a, b) are pure probes: for all arguments,
\* whether they return or raise, the branch set, the current branch, every
\* branch head and the snapshot DAG are unchanged by the call.
C26_ProbesArePure ==
    [][(last'.op \in {"conflicts", "diff"}) =>
          /\ branches' = branches
          /\ current_branch' = current_branch
          /\ heads' = heads
          /\ commits' = commits]_vars

\* C26 witness: diff raised for an unknown revision while main and feature
\* hold heads that changed the shared entry differently.
C26_Witness ==
    /\ last.op = "diff" /\ ~last.ok
    /\ DOMAIN heads = BranchNames
    /\ Diverged(NameRef("feature")) \/ Diverged(NameRef("main"))
    /\ commits[heads["main"]].tree.data["shared"]
          # commits[heads["feature"]].tree.data["shared"]
    /\ conflicts(NameRef("feature"), NameRef("main")) = <<>>

\* C27: commit_info(snap_id) gives back exactly what snapshot_meta(snap_id)
\* gives back when the object it is called on also implements Snapshot, and
\* fails as unsupported (NotImplementedError) when it does not.
C27_CommitInfoIsSnapshotMeta ==
    [][(last'.op = "commit_info") =>
          IF "snapshot_meta" \in MethodsOf(ret'.self)
          THEN /\ ret'.out.ok = snapshot_meta(ret'.arg).ok
               /\ ret'.out.value = snapshot_meta(ret'.arg).meta
               /\ ret'.out.error # "NotImplementedError"
          ELSE ret'.out = [ok |-> FALSE, error |-> "NotImplementedError",
                           value |-> <<>>]]_vars

\* C27 witness: commit_info of a commit made after the first one was called
\* on a GitSystem and gave back that commit's metadata.
C27_Witness ==
    /\ ret.op = "commit_info"
    /\ "Snapshotable" \in ret.self.bases
    /\ ret.out.ok
    /\ ret.out.value # <<>>
    /\ ret.out.value[1].snapshot_id > 1
    /\ ret.out.value = snapshot_meta(IdRef(ret.out.value[1].snapshot_id)).meta

\* C28: a call of an operation whose capability bit is unset (every Overlay
\* and Watch operation of the git adapter), or of commit_graph where it is
\* not provided, fails as unsupported (NotImplementedError) and changes no
\* state.
C28_UnsetOpsFailUnsupported ==
    [][(last'.op \in UnsetOps) =>
          /\ ~ret'.out.ok
          /\ ret'.out.error = "NotImplementedError"
          /\ UNCHANGED repoVars]_vars

\* C29: for a fixture whose capabilities() reports a layer unsupported, every
\* check of that layer's group (snapshot, branch, graph, merge) returns as a
\* skip, and no operation of an unsupported layer was called.
C29_UnsupportedGroupSkips ==
    (harness.group \in CapNames /\ harness.group \notin harness.caps) =>
        /\ harness.result = "skip"
        /\ \A op \in harness.invoked : OpLayer(op) \notin CapNames \ harness.caps

\* C30: on every exit path of a check (pass, skip, assertion failure, a hook
\* that raises, a hook that returns None or another object) every system the
\* check got from create_system was passed to close.
C30_EverySystemClosed == harness.made \subseteq harness.closed

\* The entries counted in the committed tree: what count_entries gave before
\* a change was staged on a clean work tree.
CommittedCount ==
    Cardinality({k \in Keys \ {GitKeep} : HeadTree.data[k] # Absent})

\* A commit step that follows the call `op` on the committed entry last.name
\* of an otherwise clean work tree.
CommitsAfter(op) ==
    /\ last.op = op /\ last'.op = "commit" /\ last'.ok
    /\ last.name \in Keys
    /\ mergeHead = 0
    /\ HeadTree.data[last.name] # Absent
    /\ \A k \in Keys \ {last.name} : index.data[k] = HeadTree.data[k]

\* C31 as stated: for every key k, write(k, v1), commit, delete(k), commit
\* makes read(k) absent and lowers count_entries by exactly 1 while the other
\* keys keep their values.
C31_DeleteLowersCount ==
    [][CommitsAfter("delete_entry") =>
          /\ count_entries' = CommittedCount - 1
          /\ \A k \in Keys :
                read_entry(k)' = IF k = last.name THEN Absent ELSE HeadTree.data[k]]_vars

\* C31 as amended: the same for every key other than .gitkeep, which
\* count_entries leaves out (deleting it leaves the count as it was); and a
\* committed entry that is deleted, written again with v2 and committed reads
\* v2 with count_entries at its value before the delete, for every key.
C31_DeleteAndOverwrite ==
    [][/\ CommitsAfter("delete_entry") =>
          /\ count_entries' = CommittedCount - (IF last.name = GitKeep THEN 0 ELSE 1)
          /\ \A k \in Keys :
                read_entry(k)' = IF k = last.name THEN Absent ELSE HeadTree.data[k]
       /\ CommitsAfter("write_entry") =>
          /\ count_entries' = CommittedCount
          /\ \A k \in Keys :
                /\ k = last.name => read_entry(k)' \in Values
                /\ read_entry(k)' = IF k = last.name THEN index.data[k]
                                    ELSE HeadTree.data[k]]_vars

\* C31 witness: the committed entry "shared" was deleted and the deletion
\* committed, next to a file that is still there.
C31_Witness ==
    /\ last.op = "commit" /\ last.ok
    /\ Len(commits[snapshot_id].parents) = 1
    /\ commits[commits[snapshot_id].parents[1]].tree.data["shared"] \in Values
    /\ read_entry("shared") = Absent
    /\ read_entry(GitKeep) = "v1"
    /\ count_entries = 0

\* C36: for every snapshot known to the system, whatever its commit message
\* (an empty one included), snapshot_meta returns a record whose snapshot-id
\* is the queried id and whose parent-ids are parent_ids(id), with a message.
C36_MetaForEverySnapshot ==
    \A id \in CommitIds :
        /\ snapshot_meta(IdRef(id)).ok
        /\ snapshot_meta(IdRef(id)).meta # <<>>
        /\ snapshot_meta(IdRef(id)).meta[1].snapshot_id = id
        /\ snapshot_meta(IdRef(id)).meta[1].parent_ids = parent_ids(IdRef(id))
        /\ snapshot_meta(IdRef(id)).meta[1].message = commits[id].msg

\* A merge step whose source is ahead of the current snapshot, which is one of
\* the source's ancestors: the current branch did not advance since the source
\* was forked from it.
FastForwardStep ==
    /\ last'.op = "merge"
    /\ mergeHead = 0
    /\ RevParse(last'.ref) # 0
    /\ RevParse(last'.ref) # HeadCommit
    /\ IsAncestorOrSelf(HeadCommit, RevParse(last'.ref))

\* C37 as stated: when the current branch has not advanced since the source
\* was forked, merge(source) succeeds and the resulting current snapshot has
\* exactly one parent, whatever the shape of the source's history.
C37_FastForwardOneParent ==
    [][FastForwardStep =>
          /\ last'.ok
          /\ Cardinality(SeqToSet(commits'[snapshot_id'].parents)) = 1]_vars

\* C37 as amended: such a merge succeeds unless a staged change would be
\* overwritten, writes no snapshot and moves the current branch alone to the
\* source's head, which becomes the current snapshot with the parents it had:
\* exactly one when the source's head is an ordinary commit.
C37_FastForwardToSourceHead ==
    [][FastForwardStep =>
          /\ last'.ok <=> TwoWayOk(index, HeadTree, commits[RevParse(last'.ref)].tree)
          /\ last'.ok =>
                /\ commits' = commits
                /\ snapshot_id' = RevParse(last'.ref)
                /\ \A b \in DOMAIN heads : b # HEAD.branch => heads'[b] = heads[b]
                /\ Len(commits[RevParse(last'.ref)].parents) = 1 =>
                      Cardinality(SeqToSet(commits'[snapshot_id'].parents)) = 1]_vars

\* C37 witness: main, left where feature was forked, was fast-forwarded by
\* merge("feature") to feature's head, an ordinary commit with one parent.
C37_Witness ==
    /\ last.op = "merge" /\ last.ok /\ last.name = "feature"
    /\ current_branch = "main"
    /\ "feature" \in DOMAIN heads
    /\ snapshot_id = heads["feature"]
    /\ Len(commits[snapshot_id].parents) = 1
    /\ commits[snapshot_id].parents[1] # 1

\* C38: for every HLC, SnapshotRef, Capabilities and Conflict value v (a
\* SnapshotRef with hlc (0,0), with no hlc and with an empty parent set
\* included), from_json(to_json(v)) equals v.
C38_JsonRoundTrip ==
    ret.op = "from_json" =>
        IF ret.self.class = "SnapshotRef"
        THEN SnapshotRefEq(ret.out, ret.self.value)
        ELSE ret.out = ret.self.value

\* C38 witness: a SnapshotRef with hlc (0,0) and no parents came back from
\* its JSON form.
C38_Witness ==
    /\ ret.op = "from_json"
    /\ ret.self.class = "SnapshotRef"
    /\ ret.self.value.hlc = Some(HLC(0, 0))
    /\ ret.self.value.parent_ids = {}
    /\ ret.out.hlc = Some(HLC(0, 0))

\* The overlay operations other than merge_down (write is the overlay's own
\* write path).
FrameOps ==
    {"overlay", "write", "advance", "peek_parent", "base_ref",
     "overlay_writes", "discard"}

\* C32: no overlay operation other than merge_down changes the parent: across
\* overlay, overlay writes, advance, peek_parent, base_ref, overlay_writes
\* and discard the parent's branches, heads and readable state are unchanged.
C32_OnlyMergeDownChangesParent ==
    [][ov'.op \in FrameOps =>
          /\ ov'.parent.snaps = ov.parent.snaps
          /\ ov'.parent.heads = ov.parent.heads]_vars

\* C32 witness: an overlay that held writes was discarded after the parent
\* had committed, while another overlay still holds its writes.
C32_Witness ==
    /\ ov.op = "discard" /\ ov.out.ok
    /\ Len(ov.parent.snaps) >= 2
    /\ DOMAIN ov.held = OverlayIds
    /\ \E id \in OverlayIds : id # ov.id /\ ov.held[id].local_writes # None

\* C33: after a successful merge_down or a discard the overlay is terminal,
\* and every later advance, peek_parent, base_ref, overlay_writes, merge_down
\* or discard on it fails with InvalidState.
C33_TerminalOverlayFails ==
    [][/\ (ov'.op \in {"merge_down", "discard"} /\ ov'.out.ok) =>
              ov'.id \notin ov'.parent.registry
       /\ \A id \in DOMAIN ov.held :
              id \notin ov.parent.registry =>
                  /\ id \notin ov'.parent.registry
                  /\ (ov'.id = id /\ ov'.op \in FrameOps \cup {"merge_down"}) =>
                        /\ ov'.out = [ok |-> FALSE, error |-> "InvalidState",
                                      value |-> <<>>]
                        /\ ov'.parent = ov.parent
                        /\ ov'.held = ov.held]_vars

\* C33 witness: advance was called on a gated overlay that had been merged
\* down or discarded, and failed with InvalidState.
C33_Witness ==
    /\ ov.op = "advance"
    /\ ov.out.error = "InvalidState"
    /\ ov.held[ov.id].mode = "gated"
    /\ ov.id \notin ov.parent.registry
    /\ Len(ov.parent.snaps) >= 2

C35_ModeFixed ==
    [][\A id \in DOMAIN ov.held :
          /\ ov.held[id].mode \in Modes
          /\ ov'.held[id].mode = ov.held[id].mode]_vars
====
